---- MODULE Spec2Model ----
(***************************************************************************)
(* Model of the wimesh captive-portal client: the retrying transport       *)
(* (src/src/http.rs), the Awing portal engine's connect() sequence          *)
(* (src/src/portal/awing.rs), the extractor (src/src/parser.rs) and the     *)
(* configuration that reaches the transport (src/src/config.rs,             *)
(* src/src/main.rs).                                                        *)
(***************************************************************************)
EXTENDS Integers, Sequences, FiniteSets, TLC

VARIABLES
    http_max_retries, \* Config.http.max_retries as loaded (config.rs)
    gateway,          \* AwingPortal.gateway : Option<GatewayConfig>
    handshake_url,    \* AwingPortal.handshake_url : Option<String>
    context,          \* connect(): local `context` (Option while unset)
    creds,            \* connect(): local `creds` (Option while unset)
    step,             \* the step function connect() is executing
    pc,               \* position inside the step / with_retry
    req,              \* the request the closure request_fn sends
    attempt,          \* with_retry: loop variable `attempt`
    last_err,         \* with_retry: `last_err`
    delay,            \* with_retry: `delay` of the pending sleep
    resps,            \* outcomes request_fn has produced in this transport call
    sleeps,           \* delays slept in this transport call
    http_result,      \* what with_retry returned to the step
    result,           \* what connect() returned
    failed_step,      \* the step whose `?` made connect() return
    trace,            \* first request / success of each step of this connect()
    logged,           \* the tracing records the last step of the program emitted
    produced,         \* what the steps of this connect() have produced so far
    cookie_jar,       \* HttpClient.client: the cookie store of the reqwest client
    portals,          \* PortalRegistry.portals : Vec<Box<dyn CaptivePortal>>
    answers,          \* per network name, what find_for_ssid returned, call by call
    sup_pc,           \* position of run_daemon / run_once
    consecutive_failures, \* run_daemon: `consecutive_failures`
    tick_events,      \* what the current iteration of the loop has done so far
    run_result,       \* what run_once returned
    check_interval,   \* run_daemon: `check_interval`, in seconds
    elapsed,          \* run_daemon: last_check.elapsed() at the head of the loop
    html,             \* parse_gateway_html: its argument
    parsed            \* parse_gateway_html: its return value

vars == <<http_max_retries, gateway, handshake_url, context, creds, step, pc,
          req, attempt, last_err, delay, resps, sleeps, http_result, result,
          failed_step, trace, logged, produced, cookie_jar, portals, answers,
          sup_pc, consecutive_failures, tick_events, run_result,
          check_interval, elapsed, html, parsed>>

EngineVars == <<http_max_retries, gateway, handshake_url, context, creds, step,
                pc, req, attempt, last_err, delay, resps, sleeps, http_result,
                result, failed_step, trace, logged, produced, cookie_jar>>
RegistryVars == <<portals, answers>>
SupervisorVars == <<sup_pc, consecutive_failures, tick_events, run_result,
                    check_interval, elapsed>>
ParserVars == <<html, parsed>>

\* the variables of the other components; no step of the engine writes them
EnvVars == <<RegistryVars, SupervisorVars, ParserVars>>

(***************************************************************************)
(* Option<T>: None is the empty sequence, Some(x) the one-element sequence. *)
(***************************************************************************)
None == <<>>
Some(x) == <<x>>

Min(a, b) == IF a < b THEN a ELSE b

(***************************************************************************)
(* Program constants.                                                       *)
(***************************************************************************)
\* one attempt more than the source's constant
MAX_RETRIES_one_more == 3 + 1

MAX_RETRIES == 3
default_max_retries == 3
default_check_interval == 5
ExcerptRetry == 200
ExcerptBail == 50
GATEWAY_URL == "http://login.net.vn"
BASE_URL == "http://v1.awingconnect.vn"
FALLBACK_LOGIN_URL == "http://free.wi-mesh.vn/login"

(***************************************************************************)
(* Bounds of the model.                                                     *)
(***************************************************************************)
MaxCfgRetries == 4

(***************************************************************************)
(* The text of a response body: a string is kept as the runs of its        *)
(* characters, each run being n characters of w bytes (UTF-8).              *)
(***************************************************************************)
Run(w, n) == [w |-> w, n |-> n]
TextEmpty == <<>>
TextAscii == <<Run(1, 60)>>
TextCut50 == <<Run(1, 49), Run(2, 1)>>
TextCut200 == <<Run(1, 199), Run(3, 1)>>
ErrTexts == {TextEmpty, TextAscii, TextCut50, TextCut200}

RECURSIVE ByteLen(_)
ByteLen(text) ==
    IF text = <<>> THEN 0
    ELSE Head(text).w * Head(text).n + ByteLen(Tail(text))

RECURSIVE is_char_boundary(_, _)
is_char_boundary(text, idx) ==
    IF text = <<>> THEN idx = 0
    ELSE LET r == Head(text)
             sz == r.w * r.n
         IN  IF idx >= sz THEN is_char_boundary(Tail(text), idx - sz)
             ELSE idx % r.w = 0

\* &text[..idx] for idx on a character boundary
RECURSIVE str_prefix(_, _)
str_prefix(text, idx) ==
    IF text = <<>> \/ idx = 0 THEN <<>>
    ELSE LET r == Head(text)
             sz == r.w * r.n
         IN  IF idx >= sz THEN <<r>> \o str_prefix(Tail(text), idx - sz)
             ELSE <<Run(r.w, idx \div r.w)>>

(***************************************************************************)
(* Status classes (reqwest::StatusCode).                                    *)
(***************************************************************************)
is_success(status) == status >= 200 /\ status <= 299
is_server_error(status) == status >= 500 /\ status <= 599

Statuses == {200, 404, 500, 503}
TransportCauses == {"connect", "timeout"}

(***************************************************************************)
(* Errors (anyhow::Error), by what their message carries.                   *)
(***************************************************************************)
StatusError(status, excerpt) ==
    [kind |-> "status", status |-> status, excerpt |-> excerpt]
ReqwestError(cause, url) == [kind |-> "reqwest", cause |-> cause, url |-> url]
DecodeError == [kind |-> "decode"]
BodyError == [kind |-> "body"]
MaxRetriesExceeded == [kind |-> "msg", msg |-> "Max retries exceeded"]
MsgError(m) == [kind |-> "msg", msg |-> m]
HeaderError == [kind |-> "invalid_header_value"]

Ok(v) == [ok |-> TRUE, val |-> v]
Err(e) == [ok |-> FALSE, err |-> e]
NoResult == [ok |-> FALSE, pending |-> TRUE]

(***************************************************************************)
(* URLs: base, path and query parameters; a parameter value may be the     *)
(* percent-encoded copy of a string (urlencoding::encode).                  *)
(***************************************************************************)
Param(k, v, encoded) == [k |-> k, v |-> v, encoded |-> encoded]
Url(base, path, query) == [base |-> base, path |-> path, query |-> query]

\* values that HeaderValue::from_str rejects (bytes outside visible ASCII)
NonVisibleValues == {"c-nonascii"}

header_from_str(url) ==
    \A i \in 1..Len(url.query) :
        url.query[i].encoded \/ url.query[i].v \notin NonVisibleValues

(***************************************************************************)
(* Extractor (parser.rs).  A page is the sequence of its assignment-like   *)
(* fragments  name = "val"  in text order; a name is the sequence of the   *)
(* tokens written before the separator, and the unanchored pattern matches *)
(* a key that ends the name.  The value pattern [^"']+ needs one character. *)
(***************************************************************************)
Assign(name, val) == [name |-> name, val |-> val]

EndsWith(name, key) == Len(name) >= 1 /\ name[Len(name)] = key

extract_value(page, key) ==
    LET hits == {i \in 1..Len(page) :
                    EndsWith(page[i].name, key) /\ page[i].val # ""}
    IN  IF hits = {} THEN None
        ELSE Some(page[CHOOSE i \in hits : \A j \in hits : i <= j].val)

unwrap_or_default(opt) == IF opt = None THEN "" ELSE opt[1]

parse_gateway_html(page) ==
    LET chap_challenge == extract_value(page, "chap_challenge")
    IN  IF chap_challenge = None
        THEN Err(MsgError("chap_challenge not found"))
        ELSE Ok([mac |-> unwrap_or_default(extract_value(page, "mac")),
                 ip |-> unwrap_or_default(extract_value(page, "ip")),
                 chap_id |-> unwrap_or_default(extract_value(page, "chap_id")),
                 chap_challenge |-> chap_challenge[1],
                 link_login_only |->
                     unwrap_or_default(extract_value(page, "link-login-only"))])

(***************************************************************************)
(* A form is the sequence of its <input> tags; each has a name attribute,  *)
(* an optional value attribute, and the order in which the two are written. *)
(***************************************************************************)
Input(name, value, name_first) ==
    [name |-> name, value |-> value, name_first |-> name_first]

extract_input_value(form, name) ==
    LET p1 == {i \in 1..Len(form) : form[i].name = name /\ form[i].value # None
                                    /\ form[i].name_first}
        p2 == {i \in 1..Len(form) : form[i].name = name /\ form[i].value # None
                                    /\ ~form[i].name_first}
    IN  IF p1 # {} THEN Some(form[CHOOSE i \in p1 : \A j \in p1 : i <= j].value[1])
        ELSE IF p2 # {}
        THEN Some(form[CHOOSE i \in p2 : \A j \in p2 : i <= j].value[1])
        ELSE None

parse_credentials(form) ==
    LET username == extract_input_value(form, "username")
        password == extract_input_value(form, "password")
    IN  IF username = None THEN Err(MsgError("username not found in form"))
        ELSE IF password = None THEN Err(MsgError("password not found in form"))
        ELSE Ok([username |-> username[1], password |-> password[1]])

(***************************************************************************)
(* What the servers may answer.                                             *)
(***************************************************************************)
PageFull == <<Assign(<<"mac">>, "m1"), Assign(<<"ip">>, "i1"),
              Assign(<<"chap_id">>, "id1"),
              Assign(<<"chap_challenge">>, "c1"),
              Assign(<<"link-login-only">>, "l1")>>
PageMin == <<Assign(<<"chap_challenge">>, "c2")>>
PageNoChallenge == <<Assign(<<"mac">>, "m1"), Assign(<<"ip">>, "i1"),
                     Assign(<<"link-login-only">>, "l1")>>
PageNonAscii == <<Assign(<<"chap_challenge">>, "c-nonascii")>>
Pages == {PageFull, PageMin, PageNoChallenge, PageNonAscii}

\* serde_json::Value
CtxObject == [isobj |-> TRUE, fields |-> {<<"sessionId", "s1">>}]
CtxNull == [isobj |-> FALSE, fields |-> {}]
Contexts == {CtxObject, CtxNull}

FormA == <<Input("username", Some("u1"), TRUE), Input("password", Some("p1"), TRUE)>>
FormB == <<Input("username", Some("u2"), FALSE), Input("password", Some("p2"), FALSE)>>
FormNoPassword == <<Input("username", Some("u1"), TRUE)>>

\* CustomerResponse
Customer(cc, top) == [captive_context |-> cc, content_authen_form |-> top]
CaptiveContext(f) == [content_authen_form |-> f]
Customers ==
    {Customer(Some(CaptiveContext(Some(FormA))), None),
     Customer(None, Some(FormB)),
     Customer(Some(CaptiveContext(Some(FormA))), Some(FormB)),
     Customer(Some(CaptiveContext(None)), Some(FormB)),
     Customer(Some(CaptiveContext(None)), None),
     Customer(Some(CaptiveContext(Some(FormNoPassword))), None)}

\* what a response body holds, as the step that reads it decodes it
TextBody(page) == [kind |-> "text", page |-> page]
JsonValue(v) == [kind |-> "json", value |-> v]
JsonCustomer(c) == [kind |-> "customer", customer |-> c]
NotJson == [kind |-> "notjson"]
Unreadable == [kind |-> "unreadable"]
Ignored == [kind |-> "ignored"]

Payloads(s) ==
    CASE s = "scan_gateway" -> {TextBody(p) : p \in Pages} \cup {Unreadable}
      [] s = "verify_device" -> {JsonValue(c) : c \in Contexts} \cup {NotJson, Unreadable}
      [] s = "get_credentials" -> {JsonCustomer(c) : c \in Customers} \cup {NotJson}
      [] OTHER -> {Ignored}

\* what request_fn().await may evaluate to
Outcomes(s) ==
    {[ok |-> TRUE, status |-> st, text |-> TextAscii, payload |-> p] :
        st \in {x \in Statuses : is_success(x)}, p \in Payloads(s)}
    \cup {[ok |-> TRUE, status |-> st, text |-> t, payload |-> Ignored] :
        st \in {x \in Statuses : ~is_success(x)}, t \in ErrTexts}
    \cup {[ok |-> FALSE, cause |-> c] : c \in TransportCauses}

\* the Set-Cookie header a response may carry
Cookies == {"session"}
SetCookie(out) == IF out.ok THEN {None} \cup {Some(c) : c \in Cookies} ELSE {None}

\* a tracing record: its format string and the values formatted into it
Log(msg, args) == [msg |-> msg, args |-> args]

LogOf(out) ==
    IF out.ok THEN [t |-> "resp", status |-> out.status]
    ELSE [t |-> "err", cause |-> out.cause]

(***************************************************************************)
(* Transport: HttpClient::with_retry (http.rs).                             *)
(***************************************************************************)
RECURSIVE Pow2(_)
Pow2(n) == IF n = 0 THEN 1 ELSE 2 * Pow2(n - 1)

\* a backoff that does not grow
backoff_delay_fixed(att) == 1

\* Duration::from_secs(1 << attempt)
backoff_delay(att) == Pow2(att)

\* the retry arm written first and guarded by "not a client error"
match_arm_retry_first(out, att) ==
    IF out.ok /\ ~(out.status >= 400 /\ out.status <= 499) /\ att < MAX_RETRIES - 1
    THEN "retry_status"
    ELSE IF out.ok /\ is_success(out.status) THEN "return_ok"
    ELSE IF out.ok THEN "bail"
    ELSE IF att < MAX_RETRIES - 1 THEN "retry_err"
    ELSE "return_err"

\* the arm of `match request_fn().await` that is taken
match_arm(out, att) ==
    IF out.ok /\ is_success(out.status) THEN "return_ok"
    ELSE IF out.ok /\ is_server_error(out.status) /\ att < MAX_RETRIES - 1
    THEN "retry_status"
    ELSE IF out.ok THEN "bail"
    ELSE IF att < MAX_RETRIES - 1 THEN "retry_err"
    ELSE "return_err"

\* &text[..text.len().min(limit)] : defined on a character boundary only
excerpt_ok(text, limit) == is_char_boundary(text, Min(ByteLen(text), limit))
excerpt(text, limit) == str_prefix(text, Min(ByteLen(text), limit))

\* the value after the loop
fallback(le) == IF le # None THEN le[1] ELSE MaxRetriesExceeded

Request(method, url, referer, body) ==
    [method |-> method, url |-> url, referer |-> referer, body |-> body]
NoRequest == [method |-> "none"]

TransportVars == <<req, attempt, last_err, delay, resps, sleeps, http_result>>
PortalVars == <<gateway, handshake_url>>
LocalVars == <<context, creds>>

start_with_retry(r) ==
    /\ req' = r
    /\ attempt' = 0
    /\ last_err' = None
    /\ delay' = 0
    /\ resps' = <<>>
    /\ sleeps' = <<>>
    /\ http_result' = NoResult
    /\ pc' = "request"

\* one iteration of the loop up to its sleep or return
with_retry_attempt(out, set_cookie) ==
    /\ pc = "request"
    /\ resps' = Append(resps, LogOf(out))
    /\ cookie_jar' = IF set_cookie = None THEN cookie_jar
                     ELSE cookie_jar \cup {set_cookie[1]}
    /\ trace' = IF resps = <<>> THEN Append(trace, [ev |-> "req", step |-> step])
                ELSE trace
    /\ LET arm == match_arm(out, attempt)
       IN  CASE arm = "return_ok" ->
                    /\ http_result' = Ok(out)
                    /\ pc' = "returned"
                    /\ logged' = <<>>
                    /\ UNCHANGED <<last_err, delay>>
             [] arm = "retry_status" ->
                    /\ delay' = backoff_delay(attempt)
                    /\ pc' = IF excerpt_ok(out.text, ExcerptRetry)
                             THEN "sleep" ELSE "panic"
                    /\ logged' = IF excerpt_ok(out.text, ExcerptRetry)
                                 THEN <<[msg |-> "Server error {}, body: '{}', retrying in {:?}... (attempt {}/{})",
                                         args |-> <<>>,
                                         status |-> out.status,
                                         body |-> excerpt(out.text, ExcerptRetry),
                                         delay |-> backoff_delay(attempt),
                                         attempt |-> attempt + 1]>>
                                 ELSE <<>>
                    /\ UNCHANGED <<last_err, http_result>>
             [] arm = "bail" ->
                    IF excerpt_ok(out.text, ExcerptBail)
                    THEN /\ http_result' =
                              Err(StatusError(out.status, excerpt(out.text, ExcerptBail)))
                         /\ pc' = "returned"
                         /\ logged' = <<>>
                         /\ UNCHANGED <<last_err, delay>>
                    ELSE /\ pc' = "panic"
                         /\ logged' = <<>>
                         /\ UNCHANGED <<last_err, delay, http_result>>
             [] arm = "retry_err" ->
                    /\ delay' = backoff_delay(attempt)
                    /\ last_err' = Some(ReqwestError(out.cause, req.url))
                    /\ pc' = "sleep"
                    /\ logged' = <<[msg |-> "Request error: {}, retrying in {:?}... (attempt {}/{})",
                                    args |-> <<>>,
                                    error |-> ReqwestError(out.cause, req.url),
                                    delay |-> backoff_delay(attempt),
                                    attempt |-> attempt + 1]>>
                    /\ UNCHANGED http_result
             [] OTHER ->
                    /\ http_result' = Err(ReqwestError(out.cause, req.url))
                    /\ pc' = "returned"
                    /\ logged' = <<>>
                    /\ UNCHANGED <<last_err, delay>>
    /\ UNCHANGED <<EnvVars, http_max_retries, PortalVars, LocalVars, step, req, attempt,
                   sleeps, result, failed_step, produced>>

\* tokio::time::sleep(delay) elapses; the loop advances or falls through
with_retry_sleep ==
    /\ pc = "sleep"
    /\ sleeps' = Append(sleeps, delay)
    /\ attempt' = attempt + 1
    /\ IF attempt + 1 < MAX_RETRIES
       THEN pc' = "request" /\ UNCHANGED http_result
       ELSE pc' = "returned" /\ http_result' = Err(fallback(last_err))
    /\ logged' = <<>>
    /\ UNCHANGED <<EnvVars, cookie_jar, http_max_retries, PortalVars, LocalVars, step, req, last_err,
                   delay, resps, result, failed_step, trace, produced>>

(***************************************************************************)
(* Portal engine: AwingPortal (portal/awing.rs).                            *)
(***************************************************************************)
config_name == "KTX Khu B"
config_mac_address == "serial0"

\* connect() with the last two calls exchanged
ConnectOrder_login_first ==
    <<"scan_gateway", "handshake", "verify_device",
      "get_credentials", "login_router", "send_analytics">>

\* the order of the calls in connect()
ConnectOrder == <<"scan_gateway", "handshake", "verify_device",
                  "get_credentials", "send_analytics", "login_router">>

StepIndex(s) == CHOOSE k \in 1..Len(ConnectOrder) : ConnectOrder[k] = s

StepAfter(s) ==
    IF StepIndex(s) < Len(ConnectOrder) THEN ConnectOrder[StepIndex(s) + 1]
    ELSE "none"

\* `?` : the step's error is what connect() returns
propagate(e) == e

connect_returns(res) ==
    /\ result' = res
    /\ failed_step' = IF res.ok THEN "none" ELSE step
    /\ pc' = "idle"
    /\ step' = "none"

StepFail(e, emitted) ==
    /\ connect_returns(Err(propagate(e)))
    /\ logged' = emitted
    /\ UNCHANGED <<TransportVars, trace, produced>>

StepSend(r, emitted) ==
    /\ start_with_retry(r)
    /\ logged' = emitted
    /\ UNCHANGED <<step, result, failed_step, trace, produced>>

StepDone(emitted, made) ==
    /\ trace' = Append(trace, [ev |-> "ok", step |-> step])
    /\ produced' = made
    /\ IF StepAfter(step) = "none"
       THEN /\ connect_returns(Ok("connected"))
            /\ logged' = emitted \o <<Log("[{}] Connected successfully!", <<config_name>>)>>
       ELSE /\ step' = StepAfter(step)
            /\ pc' = "call"
            /\ logged' = emitted
            /\ UNCHANGED <<result, failed_step>>
    /\ UNCHANGED TransportVars

\* format!("{}/login?serial={}&client_mac={}&...", ...)
handshake_format(gw) ==
    Url(BASE_URL, "/login",
        <<Param("serial", config_mac_address, FALSE),
          Param("client_mac", gw.mac, FALSE),
          Param("client_ip", gw.ip, FALSE),
          Param("login_url", gw.link_login_only, TRUE),
          Param("chap_id", gw.chap_id, FALSE),
          Param("chap_challenge", gw.chap_challenge, FALSE)>>)

\* headers with the Origin only
api_headers_without_referer == Ok([referer |-> None, origin |-> BASE_URL])

api_headers ==
    IF handshake_url # None /\ ~header_from_str(handshake_url[1])
    THEN Err(HeaderError)
    ELSE Ok([referer |-> handshake_url, origin |-> BASE_URL])

NothingProduced ==
    [gateway |-> None, handshake_url |-> None, context |-> None, creds |-> None]

\* connect() is entered: its locals are fresh, the engine's fields and the
\* client are as the previous call left them
connect_enter ==
    /\ pc = "idle"
    /\ step' = ConnectOrder[1]
    /\ pc' = "call"
    /\ result' = NoResult
    /\ failed_step' = "none"
    /\ trace' = <<>>
    /\ context' = None
    /\ creds' = None
    /\ req' = NoRequest
    /\ attempt' = 0
    /\ last_err' = None
    /\ delay' = 0
    /\ resps' = <<>>
    /\ sleeps' = <<>>
    /\ http_result' = NoResult
    /\ logged' = <<>>
    /\ produced' = NothingProduced
    /\ UNCHANGED <<cookie_jar, http_max_retries, PortalVars>>

\* connect() is called on an idle engine
Connect == connect_enter /\ UNCHANGED EnvVars

scan_gateway_call ==
    /\ pc = "call" /\ step = "scan_gateway"
    /\ StepSend(Request("GET", Url(GATEWAY_URL, "", <<>>), None, [kind |-> "none"]),
                <<Log("[{}] Step 0: Scanning Gateway...", <<config_name>>)>>)
    /\ UNCHANGED <<EnvVars, cookie_jar, http_max_retries, PortalVars, LocalVars>>

\* a gateway already scanned is kept
scan_gateway_ret_cached ==
    /\ pc = "returned" /\ step = "scan_gateway"
    /\ IF ~http_result.ok
       THEN StepFail(http_result.err, <<>>) /\ UNCHANGED gateway
       ELSE LET body == http_result.val.payload
            IN  IF body.kind # "text"
                THEN StepFail(BodyError, <<>>) /\ UNCHANGED gateway
                ELSE LET gw == parse_gateway_html(body.page)
                     IN  IF ~gw.ok
                         THEN StepFail(gw.err, <<>>) /\ UNCHANGED gateway
                         ELSE /\ gateway' = IF gateway # None THEN gateway
                                            ELSE Some(gw.val)
                              /\ StepDone(<<Log("   -> Found gateway: {}", <<gw.val.ip>>)>>,
                                          [produced EXCEPT !.gateway = Some(gw.val)])
    /\ UNCHANGED <<EnvVars, cookie_jar, http_max_retries, handshake_url, LocalVars>>

scan_gateway_ret ==
    /\ pc = "returned" /\ step = "scan_gateway"
    /\ IF ~http_result.ok
       THEN StepFail(http_result.err, <<>>) /\ UNCHANGED gateway
       ELSE LET body == http_result.val.payload
            IN  IF body.kind # "text"
                THEN StepFail(BodyError, <<>>) /\ UNCHANGED gateway
                ELSE LET gw == parse_gateway_html(body.page)
                     IN  IF ~gw.ok
                         THEN StepFail(gw.err, <<>>) /\ UNCHANGED gateway
                         ELSE /\ gateway' = Some(gw.val)
                              /\ StepDone(<<Log("   -> Found gateway: {}", <<gw.val.ip>>)>>,
                                          [produced EXCEPT !.gateway = Some(gw.val)])
    /\ UNCHANGED <<EnvVars, cookie_jar, http_max_retries, handshake_url, LocalVars>>

handshake_call ==
    /\ pc = "call" /\ step = "handshake"
    /\ IF gateway = None
       THEN StepFail(MsgError("Gateway not scanned"), <<>>)
       ELSE LET url == handshake_format(gateway[1])
                emitted == <<Log("[{}] Step 1: Handshaking...", <<config_name>>),
                             Log("   -> Using MAC: {}", <<config_mac_address>>)>>
            IN  IF ~header_from_str(url)
                THEN StepFail(HeaderError, emitted)
                ELSE StepSend(Request("GET", url, Some(url), [kind |-> "none"]), emitted)
    /\ UNCHANGED <<EnvVars, cookie_jar, http_max_retries, PortalVars, LocalVars>>

handshake_ret ==
    /\ pc = "returned" /\ step = "handshake"
    /\ IF ~http_result.ok
       THEN StepFail(http_result.err, <<>>) /\ UNCHANGED handshake_url
       ELSE /\ handshake_url' = Some(req.url)
            /\ StepDone(<<>>, [produced EXCEPT !.handshake_url = Some(req.url)])
    /\ UNCHANGED <<EnvVars, cookie_jar, http_max_retries, gateway, LocalVars>>

verify_device_call ==
    /\ pc = "call" /\ step = "verify_device"
    /\ LET headers == api_headers
           emitted == <<Log("[{}] Step 2: Verifying Device...", <<config_name>>)>>
       IN  IF ~headers.ok
           THEN StepFail(headers.err, emitted)
           ELSE StepSend(Request("POST", Url(BASE_URL, "/Home/VerifyUrl", <<>>),
                                 headers.val.referer, [kind |-> "json_empty"]),
                         emitted)
    /\ UNCHANGED <<EnvVars, cookie_jar, http_max_retries, PortalVars, LocalVars>>

verify_device_ret ==
    /\ pc = "returned" /\ step = "verify_device"
    /\ IF ~http_result.ok
       THEN StepFail(http_result.err, <<>>) /\ UNCHANGED context
       ELSE LET body == http_result.val.payload
            IN  CASE body.kind = "json" ->
                        /\ context' = Some(body.value)
                        /\ StepDone(<<>>, [produced EXCEPT !.context = Some(body.value)])
                  [] body.kind = "notjson" -> StepFail(DecodeError, <<>>) /\ UNCHANGED context
                  [] OTHER -> StepFail(BodyError, <<>>) /\ UNCHANGED context
    /\ UNCHANGED <<EnvVars, cookie_jar, http_max_retries, PortalVars, creds>>

\* the skeleton with every top-level key of the context merged in
customer_payload(ctx) ==
    [kind |-> "get_customer",
     captiveContextDTO |-> ctx,
     merged |-> IF ctx.isobj THEN ctx.fields ELSE {}]

get_credentials_call ==
    /\ pc = "call" /\ step = "get_credentials"
    /\ LET headers == api_headers
           emitted == <<Log("[{}] Step 3: Getting Credentials...", <<config_name>>)>>
       IN  IF ~headers.ok
           THEN StepFail(headers.err, emitted)
           ELSE StepSend(Request("POST", Url(BASE_URL, "/Content/GetCustomer", <<>>),
                                 headers.val.referer, customer_payload(context[1])),
                         emitted)
    /\ UNCHANGED <<EnvVars, cookie_jar, http_max_retries, PortalVars, LocalVars>>

\* the top-level form, or else the nested one
form_html_top_first(data) ==
    IF data.content_authen_form # None THEN data.content_authen_form
    ELSE IF data.captive_context # None
    THEN data.captive_context[1].content_authen_form
    ELSE None

\* captive_context.content_authen_form, or else the top-level one
form_html(data) ==
    IF data.captive_context # None
       /\ data.captive_context[1].content_authen_form # None
    THEN data.captive_context[1].content_authen_form
    ELSE data.content_authen_form

get_credentials_ret ==
    /\ pc = "returned" /\ step = "get_credentials"
    /\ IF ~http_result.ok
       THEN StepFail(http_result.err, <<>>) /\ UNCHANGED creds
       ELSE LET body == http_result.val.payload
            IN  IF body.kind # "customer"
                THEN StepFail(DecodeError, <<>>) /\ UNCHANGED creds
                ELSE LET form == form_html(body.customer)
                     IN  IF form = None
                         THEN /\ StepFail(MsgError("contentAuthenForm not found in response"), <<>>)
                              /\ UNCHANGED creds
                         ELSE LET c == parse_credentials(form[1])
                              IN  IF ~c.ok
                                  THEN StepFail(c.err, <<>>) /\ UNCHANGED creds
                                  ELSE /\ creds' = Some(c.val)
                                       /\ StepDone(<<Log("   -> Got credentials for: {}",
                                                         <<c.val.username>>)>>,
                                                   [produced EXCEPT !.creds = Some(c.val)])
    /\ UNCHANGED <<EnvVars, cookie_jar, http_max_retries, PortalVars, context>>

send_analytics_call ==
    /\ pc = "call" /\ step = "send_analytics"
    /\ LET headers == api_headers
           emitted == <<Log("[{}] Step 4: Sending Analytics...", <<config_name>>)>>
       IN  IF ~headers.ok
           THEN StepFail(headers.err, emitted)
           ELSE StepSend(Request("POST", Url(BASE_URL, "/Analytic/Send", <<>>),
                                 headers.val.referer,
                                 [kind |-> "analytics", captiveContextDTO |-> context[1]]),
                         emitted)
    /\ UNCHANGED <<EnvVars, cookie_jar, http_max_retries, PortalVars, LocalVars>>

\* analytics sent best-effort: its failure is dropped
send_analytics_ret_best_effort ==
    /\ pc = "returned" /\ step = "send_analytics"
    /\ StepDone(<<>>, produced)
    /\ UNCHANGED <<EnvVars, cookie_jar, http_max_retries, PortalVars, LocalVars>>

send_analytics_ret ==
    /\ pc = "returned" /\ step = "send_analytics"
    /\ IF ~http_result.ok THEN StepFail(http_result.err, <<>>) ELSE StepDone(<<>>, produced)
    /\ UNCHANGED <<EnvVars, cookie_jar, http_max_retries, PortalVars, LocalVars>>

login_url(gw) ==
    IF gw.link_login_only = "" THEN Url(FALLBACK_LOGIN_URL, "", <<>>)
    ELSE Url(gw.link_login_only, "", <<>>)

login_router_call ==
    /\ pc = "call" /\ step = "login_router"
    /\ IF gateway = None
       THEN StepFail(MsgError("Gateway not scanned"), <<>>)
       ELSE StepSend(Request("POST", login_url(gateway[1]), None,
                             [kind |-> "form", username |-> creds[1].username,
                              password |-> creds[1].password]),
                     <<Log("[{}] Step 5: Logging into Router...", <<config_name>>)>>)
    /\ UNCHANGED <<EnvVars, cookie_jar, http_max_retries, PortalVars, LocalVars>>

login_router_ret ==
    /\ pc = "returned" /\ step = "login_router"
    /\ IF ~http_result.ok THEN StepFail(http_result.err, <<>>) ELSE StepDone(<<>>, produced)
    /\ UNCHANGED <<EnvVars, cookie_jar, http_max_retries, PortalVars, LocalVars>>

(***************************************************************************)
(* Configuration: [http] max_retries of the loaded file, or its default.   *)
(***************************************************************************)
ConfigFiles == {None} \cup {Some(n) : n \in 1..MaxCfgRetries}

load_max_retries(file) == IF file = None THEN default_max_retries ELSE file[1]

\* the network names of the configurations
NetworkNames == {"1.Free Wi-MESH", "Guest"}

\* the engine as AwingPortal::new leaves it
EngineInit ==
    /\ gateway = None
    /\ handshake_url = None
    /\ context = None
    /\ creds = None
    /\ step = "none"
    /\ pc = "idle"
    /\ req = NoRequest
    /\ attempt = 0
    /\ last_err = None
    /\ delay = 0
    /\ resps = <<>>
    /\ sleeps = <<>>
    /\ http_result = NoResult
    /\ result = NoResult
    /\ failed_step = "none"
    /\ trace = <<>>
    /\ logged = <<>>
    /\ produced = NothingProduced
    /\ cookie_jar = {}

\* nothing registered, looked up, supervised or parsed
RegistryIdle == portals = <<>> /\ answers = [s \in NetworkNames |-> <<>>]
SupervisorIdle ==
    /\ sup_pc = "off"
    /\ consecutive_failures = 0
    /\ tick_events = <<>>
    /\ run_result = NoResult
    /\ check_interval = default_check_interval
    /\ elapsed = 0
ParserIdle == html = <<>> /\ parsed = NoResult

Init ==
    /\ \E file \in ConfigFiles : http_max_retries = load_max_retries(file)
    /\ EngineInit
    /\ RegistryIdle
    /\ SupervisorIdle
    /\ ParserIdle

Next ==
    \/ Connect
    \/ scan_gateway_call
    \/ scan_gateway_ret
    \/ handshake_call
    \/ handshake_ret
    \/ verify_device_call
    \/ verify_device_ret
    \/ get_credentials_call
    \/ get_credentials_ret
    \/ send_analytics_call
    \/ send_analytics_ret
    \/ login_router_call
    \/ login_router_ret
    \/ \E out \in Outcomes(step) : \E set_cookie \in SetCookie(out) :
          with_retry_attempt(out, set_cookie)
    \/ with_retry_sleep

Spec == Init /\ [][Next]_vars

(***************************************************************************)
(* Registry: PortalRegistry (portal/mod.rs), filled by                      *)
(* build_portal_registry (main.rs).                                         *)
(***************************************************************************)
MaxPortals == 3
MaxLookups == 2

PortalConfig(name, type, ssids) ==
    [name |-> name, portal_type |-> type, ssids |-> ssids]

\* [[portals]] tables of a config.toml
PortalConfigs ==
    {PortalConfig("KTX Khu B", "awing", <<"1.Free Wi-MESH">>),
     PortalConfig("Lobby", "awing", <<"Guest", "1.Free Wi-MESH">>),
     PortalConfig("Annex", "awing", <<"Guest">>),
     PortalConfig("Cafe", "other", <<"Guest">>)}

\* Box::new(AwingPortal::new(awing_config)?) : a new engine, told apart from
\* every other by the order of its creation
NewEngine(cfg, n) == [id |-> n, name |-> cfg.name, ssids |-> cfg.ssids]

\* CaptivePortal::matches_ssid
matches_ssid(p, ssid) == \E k \in 1..Len(p.ssids) : p.ssids[k] = ssid

\* the last engine that matches
find_for_ssid_last(ps, ssid) ==
    LET hits == {i \in 1..Len(ps) : matches_ssid(ps[i], ssid)}
    IN  IF hits = {} THEN None
        ELSE Some(ps[CHOOSE i \in hits : \A j \in hits : j <= i])

\* self.portals.iter_mut().find(|p| p.matches_ssid(ssid))
find_for_ssid(ps, ssid) ==
    LET hits == {i \in 1..Len(ps) : matches_ssid(ps[i], ssid)}
    IN  IF hits = {} THEN None
        ELSE Some(ps[CHOOSE i \in hits : \A j \in hits : i <= j])

RECURSIVE Flatten(_)
Flatten(seqs) == IF seqs = <<>> THEN <<>> ELSE Head(seqs) \o Flatten(Tail(seqs))

\* the names of every configured table, those of a skipped type included
all_ssids_with_skipped(ps) == Flatten([i \in 1..Len(ps) |-> ps[i].ssids]) \o <<"Guest">>

\* PortalRegistry::all_ssids
all_ssids(ps) == Flatten([i \in 1..Len(ps) |-> ps[i].ssids])

\* PortalRegistry::register
register(ps, portal) == Append(ps, portal)

\* build_portal_registry: one iteration of its loop that registers an engine
\* (a table of unknown type is skipped)
build_portal_registry_step(cfg) ==
    /\ Len(portals) < MaxPortals
    /\ cfg.portal_type = "awing"
    /\ portals' = register(portals, NewEngine(cfg, Len(portals) + 1))
    /\ UNCHANGED <<answers, EngineVars, SupervisorVars, ParserVars>>

\* a call of find_for_ssid, its return value noted
find_for_ssid_call(ssid) ==
    /\ Len(answers[ssid]) < MaxLookups
    /\ answers' = [answers EXCEPT ![ssid] = Append(@, find_for_ssid(portals, ssid))]
    /\ UNCHANGED <<portals, EngineVars, SupervisorVars, ParserVars>>

InitRegistry ==
    /\ http_max_retries = default_max_retries
    /\ EngineInit
    /\ RegistryIdle
    /\ SupervisorIdle
    /\ ParserIdle

NextRegistry ==
    \/ \E cfg \in PortalConfigs : build_portal_registry_step(cfg)
    \/ \E ssid \in NetworkNames : find_for_ssid_call(ssid)

SpecRegistry == InitRegistry /\ [][NextRegistry]_vars

(***************************************************************************)
(* Network checks (utils.rs).                                               *)
(***************************************************************************)
NmcliLine(active, ssid) == [active |-> active, ssid |-> ssid]

\* what `nmcli -t -f active,ssid dev wifi` may give: no output at all when the
\* command cannot be run, or one line per visible network
NmcliOutputs ==
    {None,
     Some(<<>>),
     Some(<<NmcliLine(TRUE, "1.Free Wi-MESH")>>),
     Some(<<NmcliLine(FALSE, "1.Free Wi-MESH"), NmcliLine(TRUE, "Home")>>),
     Some(<<NmcliLine(TRUE, "Guest"), NmcliLine(FALSE, "Home")>>),
     Some(<<NmcliLine(TRUE, "Home"), NmcliLine(TRUE, "1.Free Wi-MESH")>>)}

IoError == [kind |-> "io"]

InSeq(x, seq) == \E k \in 1..Len(seq) : seq[k] = x

\* the first active line whose network name is a target
is_connected_to_wifi(output, target_ssids) ==
    IF output = None THEN Err(IoError)
    ELSE LET lines == output[1]
             hits == {i \in 1..Len(lines) :
                        lines[i].active /\ InSeq(lines[i].ssid, target_ssids)}
         IN  IF hits = {} THEN Ok(None)
             ELSE Ok(Some(lines[CHOOSE i \in hits : \A j \in hits : i <= j].ssid))

\* what has_internet_connectivity() may return (a curl that cannot be run or
\* fails counts as false)
ProbeResults == BOOLEAN

(***************************************************************************)
(* Supervisor: run_daemon (main.rs).                                        *)
(***************************************************************************)
\* a threshold one lower
MAX_CONSECUTIVE_FAILURES_lower == 3 - 1

MAX_CONSECUTIVE_FAILURES == 3
SettleSecs == 10
BackoffSecs == 60

Event(ev, n) == [ev |-> ev, n |-> n]

\* the counter is left as it is
counter_kept(cf) == cf

\* a failed query counted like no association
counter_when_query_fails_reset(cf) == 0

\* Err(e) => only a warning is logged
counter_when_query_fails(cf) == cf

\* no engine for the name: only a warning is logged
counter_when_unresolved(cf) == cf

\* the whole interval is slept whatever has elapsed
rate_limit_sleep_full(since, interval) == interval

\* if elapsed < check_interval { sleep(check_interval - elapsed) }
rate_limit_sleep(since, interval) == IF since < interval THEN interval - since ELSE 0

\* the seconds a stretch of the loop body may take (the two queries, or the
\* queries and connect())
BodySecs == {1, 7}

\* Ok(None) => consecutive_failures = 0
counter_when_unassociated(cf) == 0

\* a counter that is only reset by a successful connect()
counter_when_online_kept(cf) == cf

\* if consecutive_failures > 0 { consecutive_failures = 0 }
counter_when_online(cf) == IF cf > 0 THEN 0 ELSE cf

\* connect() returned Ok: consecutive_failures = 0
counter_after_success(cf) == 0

\* a failed connect() counted twice
counter_after_failure_double(cf) == cf + 2

\* connect() returned Err: consecutive_failures += 1
counter_after_failure(cf) == cf + 1

\* the configuration the supervised registry is built from
SupervisedConfig ==
    <<PortalConfig("KTX Khu B", "awing", <<"1.Free Wi-MESH">>),
      PortalConfig("Cafe", "other", <<"Guest">>)>>

RECURSIVE build_portal_registry(_, _)
build_portal_registry(registry, cfgs) ==
    IF cfgs = <<>> THEN registry
    ELSE build_portal_registry(
             IF Head(cfgs).portal_type = "awing"
             THEN register(registry, NewEngine(Head(cfgs), Len(registry) + 1))
             ELSE registry,
             Tail(cfgs))

\* connect() has returned to its caller: its locals are gone, the engine's
\* fields and the client stay
connect_leave ==
    /\ pc = "idle"
    /\ step' = "none"
    /\ pc' = "idle"
    /\ result' = NoResult
    /\ failed_step' = "none"
    /\ trace' = <<>>
    /\ context' = None
    /\ creds' = None
    /\ req' = NoRequest
    /\ attempt' = 0
    /\ last_err' = None
    /\ delay' = 0
    /\ resps' = <<>>
    /\ sleeps' = <<>>
    /\ http_result' = NoResult
    /\ logged' = <<>>
    /\ produced' = NothingProduced
    /\ UNCHANGED <<cookie_jar, http_max_retries, PortalVars>>

\* the head of the loop: the rate limit, then last_check = Instant::now()
daemon_rate_limit ==
    /\ sup_pc = "loop"
    /\ tick_events' = <<Event("tick", consecutive_failures),
                        Event("elapsed", elapsed),
                        Event("rate_limit", rate_limit_sleep(elapsed, check_interval))>>
    /\ elapsed' = 0
    /\ sup_pc' = "check"
    /\ UNCHANGED <<consecutive_failures, check_interval, portals, answers, run_result,
                   ParserVars, EngineVars>>

\* the rest of the iteration, up to its end or to the call of connect(); an
\* iteration that ends here has taken `secs`
daemon_tick(output, online, secs) ==
    /\ sup_pc = "check"
    /\ LET assoc == is_connected_to_wifi(output, all_ssids(portals))
       IN  IF ~assoc.ok
           THEN /\ tick_events' = Append(tick_events, Event("assoc:err", 0))
                /\ consecutive_failures' = counter_when_query_fails(consecutive_failures)
                /\ sup_pc' = "loop"
                /\ elapsed' = elapsed + secs
                /\ UNCHANGED EngineVars
           ELSE IF assoc.val = None
           THEN /\ tick_events' = Append(tick_events, Event("assoc:none", 0))
                /\ consecutive_failures' = counter_when_unassociated(consecutive_failures)
                /\ sup_pc' = "loop"
                /\ elapsed' = elapsed + secs
                /\ UNCHANGED EngineVars
           ELSE IF online
           THEN /\ tick_events' = tick_events \o <<Event("assoc:some", 0), Event("probe:up", 0)>>
                /\ consecutive_failures' = counter_when_online(consecutive_failures)
                /\ sup_pc' = "loop"
                /\ elapsed' = elapsed + secs
                /\ UNCHANGED EngineVars
           ELSE IF find_for_ssid(portals, assoc.val[1]) = None
           THEN /\ tick_events' = tick_events \o <<Event("assoc:some", 0), Event("probe:down", 0),
                                                   Event("find:none", 0)>>
                /\ consecutive_failures' = counter_when_unresolved(consecutive_failures)
                /\ sup_pc' = "loop"
                /\ elapsed' = elapsed + secs
                /\ UNCHANGED EngineVars
           ELSE /\ tick_events' = tick_events \o <<Event("assoc:some", 0), Event("probe:down", 0),
                                                   Event("connect", 0)>>
                /\ connect_enter
                /\ sup_pc' = "connect"
                /\ UNCHANGED <<consecutive_failures, elapsed>>
    /\ UNCHANGED <<check_interval, portals, answers, run_result, ParserVars>>

\* portal.connect().await gave Ok, `secs` after the iteration began
daemon_connect_ok(secs) ==
    /\ sup_pc = "connect" /\ pc = "idle" /\ result.ok
    /\ consecutive_failures' = counter_after_success(consecutive_failures)
    /\ tick_events' = Append(tick_events, Event("connect:ok", 0))
    /\ sup_pc' = "settle"
    /\ elapsed' = elapsed + secs
    /\ connect_leave
    /\ UNCHANGED <<check_interval, portals, answers, run_result, ParserVars>>

\* portal.connect().await gave Err, `secs` after the iteration began
daemon_connect_err(secs) ==
    /\ sup_pc = "connect" /\ pc = "idle" /\ ~result.ok
    /\ consecutive_failures' = counter_after_failure(consecutive_failures)
    /\ tick_events' = Append(tick_events, Event("connect:err", 0))
    /\ sup_pc' = IF counter_after_failure(consecutive_failures) >= MAX_CONSECUTIVE_FAILURES
                 THEN "backoff" ELSE "loop"
    /\ elapsed' = elapsed + secs
    /\ connect_leave
    /\ UNCHANGED <<check_interval, portals, answers, run_result, ParserVars>>

\* sleep(10 s) after a successful login has elapsed
daemon_settled ==
    /\ sup_pc = "settle"
    /\ tick_events' = Append(tick_events, Event("sleep", SettleSecs))
    /\ sup_pc' = "loop"
    /\ elapsed' = elapsed + SettleSecs
    /\ UNCHANGED <<consecutive_failures, check_interval, portals, answers, run_result,
                   ParserVars, EngineVars>>

\* sleep(60 s) after too many failures has elapsed
daemon_backed_off ==
    /\ sup_pc = "backoff"
    /\ tick_events' = Append(tick_events, Event("sleep", BackoffSecs))
    /\ consecutive_failures' = 0
    /\ sup_pc' = "loop"
    /\ elapsed' = elapsed + BackoffSecs
    /\ UNCHANGED <<check_interval, portals, answers, run_result, ParserVars, EngineVars>>

InitDaemon ==
    /\ http_max_retries = default_max_retries
    /\ EngineInit
    /\ portals = build_portal_registry(<<>>, SupervisedConfig)
    /\ answers = [s \in NetworkNames |-> <<>>]
    /\ sup_pc = "loop"
    /\ consecutive_failures = 0
    /\ tick_events = <<>>
    /\ run_result = NoResult
    /\ check_interval = default_check_interval
    /\ elapsed = 0
    /\ ParserIdle

\* the steps of connect() once entered
ConnectSteps ==
    \/ scan_gateway_call
    \/ scan_gateway_ret
    \/ handshake_call
    \/ handshake_ret
    \/ verify_device_call
    \/ verify_device_ret
    \/ get_credentials_call
    \/ get_credentials_ret
    \/ send_analytics_call
    \/ send_analytics_ret
    \/ login_router_call
    \/ login_router_ret
    \/ \E out \in Outcomes(step) : \E set_cookie \in SetCookie(out) :
          with_retry_attempt(out, set_cookie)
    \/ with_retry_sleep

NextDaemon ==
    \/ daemon_rate_limit
    \/ \E output \in NmcliOutputs, online \in ProbeResults, secs \in BodySecs :
          daemon_tick(output, online, secs)
    \/ \E secs \in BodySecs : daemon_connect_ok(secs)
    \/ \E secs \in BodySecs : daemon_connect_err(secs)
    \/ daemon_settled
    \/ daemon_backed_off
    \/ ConnectSteps

SpecDaemon == InitDaemon /\ [][NextDaemon]_vars

(***************************************************************************)
(* One-shot mode: run_once (main.rs).                                       *)
(***************************************************************************)
\* every outcome of connect() reported as success
run_once_outcome_lenient(res) == Ok("done")

\* Ok(_) => Ok(()), Err(e) => Err(e)
run_once_outcome(res) == IF res.ok THEN Ok("done") ELSE Err(res.err)

\* run_once up to its return or to the call of connect()
run_once_start(output) ==
    /\ sup_pc = "once"
    /\ LET assoc == is_connected_to_wifi(output, all_ssids(portals))
       IN  IF ~assoc.ok
           THEN /\ tick_events' = <<Event("assoc:err", 0)>>
                /\ run_result' = Err(assoc.err)
                /\ sup_pc' = "exited"
                /\ UNCHANGED EngineVars
           ELSE IF assoc.val = None
           THEN /\ tick_events' = <<Event("assoc:none", 0)>>
                /\ run_result' = Ok("done")
                /\ sup_pc' = "exited"
                /\ UNCHANGED EngineVars
           ELSE IF find_for_ssid(portals, assoc.val[1]) = None
           THEN /\ tick_events' = <<Event("assoc:some", 0), Event("find:none", 0)>>
                /\ run_result' = Err(MsgError("No portal configured for SSID: {}"))
                /\ sup_pc' = "exited"
                /\ UNCHANGED EngineVars
           ELSE /\ tick_events' = <<Event("assoc:some", 0), Event("connect", 0)>>
                /\ connect_enter
                /\ sup_pc' = "once_connect"
                /\ UNCHANGED run_result
    /\ UNCHANGED <<portals, answers, consecutive_failures, check_interval, elapsed,
                   ParserVars>>

\* portal.connect().await has returned: run_once returns what it gave
run_once_returns ==
    /\ sup_pc = "once_connect" /\ pc = "idle"
    /\ run_result' = run_once_outcome(result)
    /\ tick_events' = Append(tick_events,
                             Event(IF result.ok THEN "connect:ok" ELSE "connect:err", 0))
    /\ sup_pc' = "exited"
    /\ UNCHANGED <<portals, answers, consecutive_failures, check_interval, elapsed,
                   ParserVars, EngineVars>>

InitOnce ==
    /\ http_max_retries = default_max_retries
    /\ EngineInit
    /\ portals = build_portal_registry(<<>>, SupervisedConfig)
    /\ answers = [s \in NetworkNames |-> <<>>]
    /\ sup_pc = "once"
    /\ consecutive_failures = 0
    /\ tick_events = <<>>
    /\ run_result = NoResult
    /\ check_interval = default_check_interval
    /\ elapsed = 0
    /\ ParserIdle

NextOnce ==
    \/ \E output \in NmcliOutputs : run_once_start(output)
    \/ run_once_returns
    \/ ConnectSteps

SpecOnce == InitOnce /\ [][NextOnce]_vars

(***************************************************************************)
(* parse_gateway_html applied to the pages a gateway may serve (parser.rs). *)
(***************************************************************************)
MaxAssignments == 3

GatewayKeys == {"mac", "ip", "chap_id", "chap_challenge", "link-login-only"}

\* the assignments a page is made of: to each key, to a longer name that ends
\* with a key, and with an empty value
PageAssignments ==
    {Assign(<<k>>, "v") : k \in GatewayKeys}
    \cup {Assign(<<"client", k>>, "w") : k \in {"mac", "ip"}}
    \cup {Assign(<<"old", "chap_challenge">>, "w"), Assign(<<"chap_challenge">>, "")}

GatewayPages ==
    UNION {[1..n -> PageAssignments] : n \in 0..MaxAssignments}

parse_gateway_html_call ==
    /\ "pending" \in DOMAIN parsed
    /\ parsed' = parse_gateway_html(html)
    /\ UNCHANGED <<html, EngineVars, RegistryVars, SupervisorVars>>

InitParser ==
    /\ http_max_retries = default_max_retries
    /\ EngineInit
    /\ RegistryIdle
    /\ SupervisorIdle
    /\ html \in GatewayPages
    /\ parsed = NoResult

NextParser == parse_gateway_html_call

SpecParser == InitParser /\ [][NextParser]_vars

(***************************************************************************)
(* Properties.                                                              *)
(***************************************************************************)
Last(seq) == seq[Len(seq)]
RespLog(status) == [t |-> "resp", status |-> status]
ErrLog(cause) == [t |-> "err", cause |-> cause]
IsServerErrorLog(l) == l.t = "resp" /\ l.status >= 500 /\ l.status <= 599
IsSuccessLog(l) == l.t = "resp" /\ l.status >= 200 /\ l.status <= 299
IsOtherStatusLog(l) == l.t = "resp" /\ ~IsServerErrorLog(l) /\ ~IsSuccessLog(l)
IsRetryableLog(l) == l.t = "err" \/ IsServerErrorLog(l)
CallEnded == pc \in {"returned", "call", "idle"}

\* the outcome just logged was followed by the backoff 2^i and, once the
\* sleep is over, by the next attempt
BackedOffAfterLast ==
    LET n == Len(resps)
    IN  \/ pc = "sleep" /\ delay = 2^(n - 1) /\ Len(sleeps) = n - 1 /\ attempt = n - 1
        \/ pc = "request" /\ attempt = n /\ Len(sleeps) = n /\ sleeps[n] = 2^(n - 1)

\* C1: a 5xx response on attempt i that is not the last of the 3 attempts is
\* followed by a wait of 2^i seconds and then one more attempt; the response
\* sequence 500, 500, 200 ends in success after waits of 1s and 2s.
C1_ServerErrorBacksOffAndRetries ==
    /\ (resps # <<>> /\ IsServerErrorLog(Last(resps)) /\ Len(resps) < 3)
          => BackedOffAfterLast
    /\ (Len(resps) = 2 /\ resps[1] = RespLog(500) /\ resps[2] = RespLog(500))
          => pc \in {"sleep", "request"}
    /\ resps = <<RespLog(500), RespLog(500), RespLog(200)>>
          => CallEnded /\ http_result.ok /\ sleeps = <<1, 2>>

\* C2: when every attempt is answered 500 the call fails after exactly 3
\* attempts, with the error made from the 500 response and not the generic one.
C2_All500FailsAfterThreeAttempts ==
    (resps # <<>> /\ \A i \in 1..Len(resps) : resps[i] = RespLog(500))
        => /\ Len(resps) < 3 => pc \in {"sleep", "request"}
           /\ Len(resps) = 3 =>
                 /\ CallEnded
                 /\ ~http_result.ok
                 /\ http_result.err.kind = "status"
                 /\ http_result.err.status = 500

\* C3: a response that is neither a success nor a 5xx ends the call at that
\* attempt with an error carrying its status; no delay follows it and no
\* further attempt is made.
C3_OtherStatusFailsAtOnce ==
    (resps # <<>> /\ IsOtherStatusLog(Last(resps)))
        => /\ CallEnded
           /\ ~http_result.ok
           /\ http_result.err.kind = "status"
           /\ http_result.err.status = Last(resps).status
           /\ attempt = Len(resps) - 1
           /\ Len(sleeps) = Len(resps) - 1

\* C4: a success response on attempt k ends the loop at once: the call has
\* returned that response after exactly k requests, with no delay after it
\* and no further attempt.
C4_SuccessReturnsAtOnce ==
    (resps # <<>> /\ IsSuccessLog(Last(resps)))
        => /\ CallEnded
           /\ http_result.ok
           /\ http_result.val \in Outcomes(IF pc = "returned" THEN step
                                           ELSE Last(trace).step)
           /\ http_result.val.status = Last(resps).status
           /\ attempt = Len(resps) - 1
           /\ Len(sleeps) = Len(resps) - 1

C4_Witness ==
    /\ pc = "returned" /\ http_result.ok
    /\ Len(resps) = 3 /\ IsServerErrorLog(resps[1]) /\ resps[2].t = "err"

\* C5: a transport-level failure on attempt i before the last is followed by
\* the backoff 2^i and a retry; on the last attempt it is returned as the
\* call's error.
C5_TransportFailureBacksOffOrReturns ==
    (resps # <<>> /\ Last(resps).t = "err")
        => IF Len(resps) < 3
           THEN BackedOffAfterLast
           ELSE /\ CallEnded
                /\ http_result = Err(ReqwestError(Last(resps).cause, req.url))
                /\ Len(sleeps) = Len(resps) - 1

C5_Witness ==
    /\ pc = "returned" /\ ~http_result.ok
    /\ Len(resps) = 3 /\ \A i \in 1..3 : resps[i].t = "err"
    /\ sleeps = <<1, 2>>

\* C6: when all 3 attempts ended in a retryable condition (5xx or transport
\* failure), the call returns an error, and it is the error of the last
\* attempt; the generic "Max retries exceeded" is returned only when no error
\* was captured.
C6_LastAttemptsErrorIsReturned ==
    (Len(resps) = 3 /\ \A i \in 1..3 : IsRetryableLog(resps[i]))
        => /\ CallEnded
           /\ ~http_result.ok
           /\ IF Last(resps).t = "err"
              THEN /\ http_result.err.kind = "reqwest"
                   /\ http_result.err.cause = Last(resps).cause
              ELSE /\ http_result.err.kind = "status"
                   /\ http_result.err.status = Last(resps).status
           /\ http_result.err = MaxRetriesExceeded => last_err = None

\* C7: the number of attempts a transport call makes is bounded by, and on
\* exhaustion equal to, the configured http.max_retries.
C7_AttemptsFollowConfiguredMaxRetries ==
    /\ Len(resps) <= http_max_retries
    /\ (pc = "returned" /\ resps # <<>> /\ \A i \in 1..Len(resps) : IsRetryableLog(resps[i]))
          => Len(resps) = http_max_retries

\* the six steps in the order the specification gives them
SpecifiedOrder == <<"scan_gateway", "handshake", "verify_device",
                    "get_credentials", "send_analytics", "login_router">>

SpecifiedTrace ==
    [i \in 1..12 |-> [ev |-> IF i % 2 = 1 THEN "req" ELSE "ok",
                      step |-> SpecifiedOrder[(i + 1) \div 2]]]

IsPrefix(a, b) == Len(a) <= Len(b) /\ \A i \in 1..Len(a) : a[i] = b[i]

PositionOf(s) == CHOOSE k \in 1..6 : SpecifiedOrder[k] = s

\* C8: within a connect() call the steps run in the order Scan Gateway,
\* Handshake, Verify Device, Get Credentials, Send Analytics, Login to Router:
\* a step sends its request only after all earlier steps succeeded, and
\* connect() returns success only after all six succeeded in that order.
C8_StepsRunInOrder ==
    /\ IsPrefix(trace, SpecifiedTrace)
    /\ pc \in {"request", "sleep"} =>
          Len(trace) \in {2 * PositionOf(step) - 2, 2 * PositionOf(step) - 1}
    /\ (pc = "sleep" \/ (pc = "request" /\ resps # <<>>)) =>
          Len(trace) = 2 * PositionOf(step) - 1
    /\ result.ok => trace = SpecifiedTrace

C8_Witness == pc = "idle" /\ result.ok /\ Len(trace) = 12

\* C9: when a step of connect() fails, connect() returns that error and no
\* request of a later step is sent; a failed Send Analytics makes connect()
\* fail and the Login to Router request is never sent.
C9_StepFailureAborts ==
    /\ (pc = "idle" /\ failed_step # "none") =>
          /\ ~result.ok
          /\ "err" \in DOMAIN result
          /\ \A i \in 1..Len(trace) :
                /\ PositionOf(trace[i].step) <= PositionOf(failed_step)
                /\ trace[i].step = failed_step => trace[i].ev = "req"
    /\ (pc = "idle" /\ ~result.ok /\ "err" \in DOMAIN result) => failed_step # "none"
    /\ (pc = "call" /\ step # "scan_gateway") => http_result.ok
    /\ (step = "send_analytics" /\ pc = "returned" /\ ~http_result.ok) =>
          ~\E i \in 1..Len(trace) : trace[i].step = "login_router"
    /\ (pc = "idle" /\ failed_step = "send_analytics") =>
          /\ ~result.ok
          /\ ~\E i \in 1..Len(trace) : trace[i].step = "login_router"

C9_Witness ==
    /\ pc = "idle" /\ failed_step = "send_analytics" /\ ~result.ok
    /\ result.err.kind = "reqwest"

\* the step an error names: the step that requests the URL the error carries,
\* or the only step that produces its message; "unknown" when it carries
\* neither
step_named_by(e) ==
    CASE e.kind = "reqwest" ->
            (CASE e.url.base = GATEWAY_URL /\ e.url.path = "" -> "scan_gateway"
               [] e.url.base = BASE_URL /\ e.url.path = "/login" -> "handshake"
               [] e.url.base = BASE_URL /\ e.url.path = "/Home/VerifyUrl" -> "verify_device"
               [] e.url.base = BASE_URL /\ e.url.path = "/Content/GetCustomer" -> "get_credentials"
               [] e.url.base = BASE_URL /\ e.url.path = "/Analytic/Send" -> "send_analytics"
               [] OTHER -> "login_router")
      [] e.kind = "msg" ->
            (CASE e.msg = "chap_challenge not found" -> "scan_gateway"
               [] e.msg \in {"contentAuthenForm not found in response",
                             "username not found in form",
                             "password not found in form"} -> "get_credentials"
               [] OTHER -> "unknown")
      [] OTHER -> "unknown"

\* C10: the error a failed connect() returns identifies the step that failed.
C10_ErrorIdentifiesFailedStep ==
    (pc = "idle" /\ failed_step # "none") => step_named_by(result.err) = failed_step

\* the request carries the extracted credentials (the login form)
CarriesCredentials(r) == r.method # "none" /\ r.body.kind = "form"

\* the login requests sent so far in this connect() call
LoginRequestsSent ==
    IF trace # <<>> /\ Last(trace).step = "login_router" THEN Len(resps) ELSE 0

\* C11 as stated: within one connect() call the extracted credentials are sent
\* in exactly one login request and never in a second one, whatever the
\* server answers (5xx responses and transport failures included).
C11_CredentialsSentInOneRequest ==
    /\ LoginRequestsSent <= 1
    /\ (pc = "idle" /\ result.ok) => LoginRequestsSent = 1

\* C11 amended: within one connect() call the credentials are sent only in
\* the login request to the router and in no other step's request; that
\* request is sent once, and again only after a 5xx response or a transport
\* failure on it, at most 3 times in all.
C11_CredentialsSentByLoginOnly ==
    /\ LoginRequestsSent \in 0..3
    /\ LoginRequestsSent > 0 =>
          /\ CarriesCredentials(req)
          /\ req.body.username = creds[1].username
          /\ req.body.password = creds[1].password
          /\ req.url = login_url(gateway[1])
          /\ \A i \in 1..(Len(resps) - 1) : IsRetryableLog(resps[i])
    /\ (pc \in {"request", "sleep", "returned", "panic"} /\ step # "login_router")
          => ~CarriesCredentials(req)
    /\ (pc = "idle" /\ result.ok) => LoginRequestsSent >= 1

C11_Witness ==
    /\ pc = "idle" /\ result.ok
    /\ LoginRequestsSent = 3
    /\ IsServerErrorLog(resps[1]) /\ resps[2].t = "err"

\* the record has the value formatted into it
Mentions(r, v) == \E i \in 1..Len(r.args) : r.args[i] = v

\* C12: no log record emitted during connect() contains the value of the
\* extracted username or password, so the log output is the same whatever
\* credential values the portal serves.
C12_LogsOmitCredentials ==
    creds # None =>
        \A i \in 1..Len(logged) :
            /\ ~Mentions(logged[i], creds[1].username)
            /\ ~Mentions(logged[i], creds[1].password)

\* the data the requests of the running step are built from were produced by
\* the steps of this connect() call
UsesOwnData ==
    /\ context = produced.context
    /\ creds = produced.creds
    /\ (pc \in {"request", "sleep", "returned", "panic"}) =>
          CASE step = "scan_gateway" ->
                  req = Request("GET", Url(GATEWAY_URL, "", <<>>), None, [kind |-> "none"])
            [] step = "handshake" ->
                  /\ produced.gateway # None
                  /\ req.url = handshake_format(produced.gateway[1])
            [] step = "verify_device" ->
                  /\ produced.handshake_url # None
                  /\ req.referer = produced.handshake_url
            [] step = "get_credentials" ->
                  /\ req.referer = produced.handshake_url
                  /\ req.body = customer_payload(produced.context[1])
            [] step = "send_analytics" ->
                  /\ req.referer = produced.handshake_url
                  /\ req.body.captiveContextDTO = produced.context[1]
            [] OTHER ->
                  /\ req.url = login_url(produced.gateway[1])
                  /\ req.body.username = produced.creds[1].username
                  /\ req.body.password = produced.creds[1].password

\* a connect() call begins
ConnectBegins == pc = "idle" /\ pc' = "call"

\* C13: a connect() call that follows another on the same engine starts again
\* at the first step, runs the complete six-step sequence and builds every
\* request only from what its own steps produced, whatever the first call's
\* outcome; of the first call's state only the client's cookies are carried
\* into it.
C13_EachCallUsesOnlyItsOwnData ==
    /\ [](UsesOwnData /\ ((pc = "idle" /\ result.ok) => trace = SpecifiedTrace))
    /\ [][ConnectBegins =>
            /\ step' = "scan_gateway"
            /\ trace' = <<>>
            /\ produced' = NothingProduced
            /\ context' = None /\ creds' = None
            /\ cookie_jar' = cookie_jar]_vars

C13_Witness ==
    /\ step = "handshake" /\ pc = "request"
    /\ handshake_url # None /\ handshake_url[1] # req.url
    /\ failed_step = "none"
    /\ cookie_jar # {} /\ resps = <<>>

Serving(ssid) == {i \in 1..Len(portals) : matches_ssid(portals[i], ssid)}

\* C14: find_for_ssid(name) returns the engine registered first among those
\* that serve the name, returns that same engine on every repeated call, and
\* the lookups leave the registration order as it was.
C14_FirstRegisteredEngineIsFound ==
    /\ \A i \in 1..Len(portals) : portals[i].id = i
    /\ \A s \in NetworkNames : \A k \in 1..Len(answers[s]) :
          answers[s][k] # None =>
             LET e == answers[s][k][1]
             IN  /\ e.id \in Serving(s)
                 /\ portals[e.id] = e
                 /\ \A j \in Serving(s) : e.id <= j
                 /\ \A m \in k..Len(answers[s]) : answers[s][m] = Some(e)

C14_Witness ==
    \E s \in NetworkNames :
        /\ Cardinality(Serving(s)) >= 2
        /\ Len(answers[s]) = 2
        /\ answers[s][1] # None
        /\ answers[s][2] = answers[s][1]
        /\ answers[s][1][1].id = 2

\* the current iteration has had this event
Happened(ev) == \E i \in 1..Len(tick_events) : tick_events[i].ev = ev

Slept(secs) == \E i \in 1..Len(tick_events) : tick_events[i] = Event("sleep", secs)

\* the iteration is over: the loop is back at its head
TickEnded == sup_pc = "loop" /\ tick_events # <<>>

\* portal.connect().await returns to run_daemon
ConnectReturns == sup_pc = "connect" /\ sup_pc' # "connect"

\* C15: with the counter at 2 one more failed connect() enters Backoff, which
\* sleeps 60 s and resets the counter to 0 before the next tick; a successful
\* connect() at 2 resets it to 0 with no 60 s sleep; Backoff is entered only
\* when the counter reaches 3.
C15_BackoffAtThreeFailures ==
    /\ [][ConnectReturns =>
            IF result.ok
            THEN /\ consecutive_failures' = 0
                 /\ sup_pc' = "settle"
            ELSE /\ consecutive_failures' = consecutive_failures + 1
                 /\ sup_pc' = (IF consecutive_failures = 2 THEN "backoff" ELSE "loop")]_vars
    /\ [](sup_pc = "backoff" => consecutive_failures = 3 /\ ~Slept(60))
    /\ [](sup_pc = "settle" => consecutive_failures = 0)
    /\ [][sup_pc = "backoff" /\ sup_pc' # "backoff" =>
            /\ sup_pc' = "loop"
            /\ consecutive_failures' = 0
            /\ tick_events' = Append(tick_events, Event("sleep", 60))]_vars
    /\ [][sup_pc = "settle" /\ sup_pc' # "settle" =>
            /\ sup_pc' = "loop"
            /\ consecutive_failures' = 0
            /\ tick_events' = Append(tick_events, Event("sleep", 10))]_vars
    /\ [](TickEnded => (Slept(60) <=> (tick_events[1].n = 2 /\ Happened("connect:err"))))
    /\ [](TickEnded /\ Happened("connect:ok") => consecutive_failures = 0 /\ ~Slept(60))

C15_Witness ==
    /\ TickEnded
    /\ tick_events[1] = Event("tick", 2)
    /\ Happened("connect:err") /\ Slept(60)
    /\ consecutive_failures = 0

\* C16: a tick in which the association query reports no association to a
\* target network ends with the counter at 0, without the connectivity probe
\* having been consulted and without connect() having been called.
C16_NoAssociationResetsCounter ==
    (TickEnded /\ Happened("assoc:none")) =>
        /\ consecutive_failures = 0
        /\ ~Happened("probe:up") /\ ~Happened("probe:down")
        /\ ~Happened("connect")
        /\ pc = "idle" /\ step = "none"

C16_Witness ==
    /\ TickEnded /\ Happened("assoc:none")
    /\ tick_events[1].n = 2
    /\ consecutive_failures = 0

\* C17: a tick in which the device is associated to a target network and the
\* probe reports the internet reachable ends with the counter at 0, whatever
\* it was before, and without connect() having been called.
C17_ReachableResetsCounter ==
    (TickEnded /\ Happened("assoc:some") /\ Happened("probe:up")) =>
        /\ consecutive_failures = 0
        /\ ~Happened("connect")
        /\ pc = "idle" /\ step = "none"

C17_Witness ==
    /\ TickEnded /\ Happened("assoc:some") /\ Happened("probe:up")
    /\ tick_events[1].n = 2
    /\ consecutive_failures = 0

\* the process has been aborted inside connect(): run_daemon's loop is gone
LoopTerminated == sup_pc = "connect" /\ pc = "panic"

ConnectCalls == Cardinality({i \in 1..Len(tick_events) : tick_events[i].ev = "connect"})

\* C19: in one-shot mode a failed connect() of the resolved engine is the
\* outcome of the run: run_once returns that error and connect() is not called
\* again; run_once returns success only when connect() succeeded or no target
\* network is associated.
C19_OneShotReportsConnectFailure ==
    /\ ConnectCalls <= 1
    /\ sup_pc = "exited" =>
          /\ pc = "idle"
          /\ Happened("connect") =>
                /\ result = Ok("connected") \/ (~result.ok /\ "err" \in DOMAIN result)
                /\ ~result.ok => run_result = Err(result.err)
                /\ result.ok => run_result.ok
          /\ run_result.ok =>
                \/ Happened("connect") /\ result.ok
                \/ tick_events = <<Event("assoc:none", 0)>>

C19_Witness ==
    /\ sup_pc = "exited"
    /\ Happened("connect") /\ ~result.ok /\ failed_step = "login_router"
    /\ run_result = Err(result.err)

\* the page assigns to the key; with a value that is not empty
HasAssignment(key) == \E i \in 1..Len(html) : html[i].name = <<key>>
HasValue(key) == \E i \in 1..Len(html) : html[i].name = <<key>> /\ html[i].val # ""

\* C20: parse_gateway_html fails with "chap_challenge not found" whenever the
\* page has no chap_challenge assignment, whichever of mac, ip, chap_id and
\* link-login-only it has; when the challenge is there it succeeds and every
\* other field the page does not assign is the empty string.
C20_ChallengeIsTheOnlyRequiredField ==
    "pending" \notin DOMAIN parsed =>
        /\ ~HasAssignment("chap_challenge") =>
              /\ ~parsed.ok
              /\ parsed.err = MsgError("chap_challenge not found")
        /\ HasValue("chap_challenge") =>
              /\ parsed.ok
              /\ ~HasAssignment("mac") => parsed.val.mac = ""
              /\ ~HasAssignment("ip") => parsed.val.ip = ""
              /\ ~HasAssignment("chap_id") => parsed.val.chap_id = ""
              /\ ~HasAssignment("link-login-only") => parsed.val.link_login_only = ""

\* C26: every transport call returns from inside its attempt loop, after at
\* most 3 requests and at most 2 backoff sleeps: the final attempt returns
\* whatever its outcome, so the value after the loop (the stored last error or
\* "Max retries exceeded") is never what the call returns.
C26_CallReturnsInsideTheLoop ==
    /\ Len(resps) <= 3
    /\ Len(sleeps) <= 2
    /\ Len(resps) = 3 => CallEnded
    /\ pc = "sleep" => attempt < 2
    /\ (CallEnded /\ resps # <<>>) =>
          /\ Len(sleeps) = Len(resps) - 1
          /\ ~IsRetryableLog(Last(resps)) \/ Len(resps) = 3
          /\ ~http_result.ok => http_result.err # MaxRetriesExceeded

\* C28: building the body excerpt of a non-success response always completes,
\* also for a body whose 50th or 200th byte lies inside a multi-byte
\* character: the call then retries or returns an error value and is never
\* aborted.
C28_ExcerptNeverAborts ==
    /\ pc # "panic"
    /\ (resps # <<>> /\ Last(resps).t = "resp" /\ ~is_success(Last(resps).status))
          => pc \in {"sleep", "request"} \/ (CallEnded /\ ~http_result.ok)

ApiSteps == {"verify_device", "get_credentials", "send_analytics"}

\* C22: every Verify Device, Get Credentials and Send Analytics request of a
\* connect() call carries as Referer the handshake URL that the Handshake step
\* of the same call recorded; none is sent without a Referer or with the URL
\* of an earlier call.
C22_ApiRequestsCarryOwnHandshakeReferer ==
    (step \in ApiSteps /\ pc \in {"request", "sleep", "returned", "panic"}) =>
        /\ req.referer # None
        /\ req.referer = produced.handshake_url
        /\ req.referer = Some(handshake_format(produced.gateway[1]))
        /\ \E i \in 1..Len(trace) : trace[i] = [ev |-> "ok", step |-> "handshake"]

C22_Witness ==
    /\ step = "send_analytics" /\ pc = "returned" /\ Len(resps) = 2
    /\ req.referer = handshake_url
    /\ handshake_url = Some(handshake_format(parse_gateway_html(PageMin).val))

\* the customer response Get Credentials has decoded
GotCustomer ==
    /\ http_result.ok
    /\ http_result.val.payload.kind = "customer"

TheCustomer == http_result.val.payload.customer

NestedForm ==
    IF TheCustomer.captive_context = None THEN None
    ELSE TheCustomer.captive_context[1].content_authen_form

\* C23: Get Credentials reads the form from the nested captive-context field
\* when it is there, otherwise from the top-level field; when it is in neither
\* the step fails without the extractor being run, and no Send Analytics or
\* Login to Router request is sent.
C23_FormTakenNestedFirst ==
    /\ (step = "send_analytics" /\ pc = "call") =>
          /\ GotCustomer
          /\ NestedForm # None => creds = Some(parse_credentials(NestedForm[1]).val)
          /\ NestedForm = None =>
                /\ TheCustomer.content_authen_form # None
                /\ creds = Some(parse_credentials(TheCustomer.content_authen_form[1]).val)
    /\ (pc = "idle" /\ failed_step = "get_credentials" /\ GotCustomer) =>
          /\ ~\E i \in 1..Len(trace) : trace[i].step \in {"send_analytics", "login_router"}
          /\ (NestedForm = None /\ TheCustomer.content_authen_form = None) =>
                result.err = MsgError("contentAuthenForm not found in response")
          /\ NestedForm # None => result.err = parse_credentials(NestedForm[1]).err
          /\ (NestedForm = None /\ TheCustomer.content_authen_form # None) =>
                result.err = parse_credentials(TheCustomer.content_authen_form[1]).err

C23_Witness ==
    /\ pc = "idle" /\ failed_step = "get_credentials" /\ GotCustomer
    /\ NestedForm = None /\ TheCustomer.captive_context # None
    /\ TheCustomer.content_authen_form = None
    /\ Last(trace) = [ev |-> "req", step |-> "get_credentials"]

\* C21: the starts of two consecutive iterations are at least check_interval
\* apart: when less than check_interval has elapsed since the previous iteration
\* began the loop sleeps exactly the remainder, otherwise it does not sleep.
SinceLastTick == tick_events[2].n
RateLimitSleep == tick_events[3].n
C21_TicksAreCheckIntervalApart ==
    tick_events # <<>> =>
        /\ tick_events[2].ev = "elapsed" /\ tick_events[3].ev = "rate_limit"
        /\ SinceLastTick + RateLimitSleep >= check_interval
        /\ SinceLastTick < check_interval =>
              /\ RateLimitSleep = check_interval - SinceLastTick
              /\ SinceLastTick + RateLimitSleep = check_interval
        /\ SinceLastTick >= check_interval => RateLimitSleep = 0
C21_Witness ==
    /\ sup_pc = "check" /\ tick_events[1].n = 1
    /\ SinceLastTick = 1 /\ RateLimitSleep = check_interval - 1
C21_WitnessNoSleep ==
    sup_pc = "check" /\ SinceLastTick = 7 /\ RateLimitSleep = 0

\* C24: an iteration in which the association query fails, or in which the
\* associated network resolves to no engine, leaves consecutive_failures as it
\* was and calls connect() not at all; the loop goes on with the next iteration.
C24_FailedQueryLeavesCounter ==
    /\ []((TickEnded /\ (Happened("assoc:err") \/ Happened("find:none"))) =>
             /\ consecutive_failures = tick_events[1].n
             /\ ~Happened("connect")
             /\ pc = "idle")
    /\ [][(sup_pc = "check" /\ (Happened("assoc:err") \/ Happened("find:none"))')
             => (sup_pc' = "loop" /\ UNCHANGED <<consecutive_failures, EngineVars>>)]_vars
C24_Witness ==
    TickEnded /\ Happened("assoc:err") /\ tick_events[1].n = 2 /\ consecutive_failures = 2

\* C25: consecutive_failures is 0, 1 or 2 at the start of every iteration and
\* never exceeds 3, whatever the association, connectivity and connect()
\* outcomes are.
C25_CounterStaysInRange ==
    /\ consecutive_failures \in 0..MAX_CONSECUTIVE_FAILURES
    /\ sup_pc \in {"loop", "check", "connect"} =>
          consecutive_failures \in 0..(MAX_CONSECUTIVE_FAILURES - 1)
    /\ tick_events # <<>> => tick_events[1].n \in 0..(MAX_CONSECUTIVE_FAILURES - 1)
C25_Witness ==
    sup_pc = "backoff" /\ consecutive_failures = MAX_CONSECUTIVE_FAILURES /\ tick_events[1].n = 2

\* C27: whenever the association query reports a network name, the registry
\* resolves an engine for it, the names passed to the query being the
\* registry's served names; the branch for a name without an engine is never
\* taken.
C27_ReportedNameResolves ==
    /\ ~Happened("find:none")
    /\ \A output \in NmcliOutputs :
          LET assoc == is_connected_to_wifi(output, all_ssids(portals))
          IN  (assoc.ok /\ assoc.val # None) =>
                 /\ InSeq(assoc.val[1], all_ssids(portals))
                 /\ find_for_ssid(portals, assoc.val[1]) # None
    /\ (Happened("probe:down") /\ sup_pc # "check") => Happened("connect")
C27_Witness ==
    /\ sup_pc = "connect" /\ Happened("assoc:some") /\ Happened("connect")
    /\ step = "handshake" /\ pc = "returned"


====
